---- MODULE Spec2Model ----
(***************************************************************************)
(* Prisma schema -> TypeScript declarations (src/main.py).                 *)
(*                                                                         *)
(* A Python str is a sequence of one-character strings, so that strip,     *)
(* split, startswith, endswith, "in", the @@schema regex and sorted() are  *)
(* computed character by character as the code computes them.  A text of   *)
(* several lines is the sequence of its lines: "\n".join(lines) of lines   *)
(* that hold no line break loses nothing.                                  *)
(***************************************************************************)
EXTENDS Integers, Sequences, FiniteSets, TLC

VARIABLES
    schema,     \* the schema text handed to the program, as schema.splitlines()
    decls,      \* history: the declarations the schema text was written from
    st,         \* parse_prisma's locals: lines, i, kind, name, body_lines, enums, models, pc
    enums,      \* the enum collection returned by parse_prisma (an ordered dict)
    models,     \* the model collection returned by parse_prisma (an ordered dict)
    files,      \* the artifact map path -> text (an ordered dict), text as its lines
    opts,       \* the options of the run that produced files
    preview_file, \* the file shown in the preview pane, none before a run
    steps,      \* history: the steps parse_prisma has taken when run step by step
    phase,      \* "input" before a run, "done" after a run, "skipped" for a blank schema
    mfield,     \* type mapper alone: the FieldDef
    mmodels,    \* type mapper alone: model_names
    menums,     \* type mapper alone: enum_names
    mts         \* type mapper alone: the results, none before the call

vars == <<schema, decls, st, enums, models, files, opts, preview_file, steps, phase, mfield, mmodels, menums, mts>>

(***************************************************************************)
(* Python str operations                                                   *)
(***************************************************************************)

\* The printable ASCII characters in code point order, the grave accent left out
\* (str comparison in sorted() reads only the order).
Alphabet ==
    <<" ","!","\"","#","$","%","&","'","(",")","*","+",",","-",".","/","0","1","2","3","4","5",
      "6","7","8","9",":",";","<","=",">","?","@","A","B","C","D","E","F","G","H","I","J","K",
      "L","M","N","O","P","Q","R","S","T","U","V","W","X","Y","Z","[","\\","]","^","_","a","b",
      "c","d","e","f","g","h","i","j","k","l","m","n","o","p","q","r","s","t","u","v","w","x",
      "y","z","{","|","}","~">>

Code(c) == CHOOSE k \in 1..Len(Alphabet) : Alphabet[k] = c

\* s < t for two str, as Python compares them: by code point, a proper prefix first.
RECURSIVE StrLess(_, _)
StrLess(s, t) ==
    IF t = << >> THEN FALSE
    ELSE IF s = << >> THEN TRUE
    ELSE IF Head(s) = Head(t) THEN StrLess(Tail(s), Tail(t))
    ELSE Code(Head(s)) < Code(Head(t))

\* sorted(S) of a set of str.
RECURSIVE Sorted(_)
Sorted(S) ==
    IF S = {} THEN << >>
    ELSE LET lo == CHOOSE x \in S : \A y \in S \ {x} : StrLess(x, y)
         IN  <<lo>> \o Sorted(S \ {lo})

IsSpace(c) == c \in {" ", "\t"}

RECURSIVE LStrip(_)
LStrip(s) == IF s # << >> /\ IsSpace(Head(s)) THEN LStrip(Tail(s)) ELSE s

RECURSIVE RStrip(_)
RStrip(s) ==
    IF s # << >> /\ IsSpace(s[Len(s)]) THEN RStrip(SubSeq(s, 1, Len(s) - 1)) ELSE s

\* s.strip()
Strip(s) == RStrip(LStrip(s))

\* s.startswith(p), s.endswith(p)
StartsWith(s, p) == Len(p) <= Len(s) /\ SubSeq(s, 1, Len(p)) = p

EndsWith(s, p) == Len(p) <= Len(s) /\ SubSeq(s, Len(s) - Len(p) + 1, Len(s)) = p

\* s.find(p) + 1: the first position of p in s, 0 when p is not in s.
Find(s, p) ==
    LET hits == {j \in 1..(Len(s) - Len(p) + 1) : SubSeq(s, j, j + Len(p) - 1) = p}
    IN  IF hits = {} THEN 0 ELSE CHOOSE j \in hits : \A k \in hits : j <= k

\* p in s
Contains(s, p) == Find(s, p) # 0

\* s.split(): the maximal runs of non-space characters.
RECURSIVE Split(_)
Split(s) ==
    LET t == LStrip(s)
        sp == {j \in 1..Len(t) : IsSpace(t[j])}
        n == IF sp = {} THEN Len(t) ELSE (CHOOSE j \in sp : \A k \in sp : j <= k) - 1
    IN  IF t = << >> THEN << >>
        ELSE <<SubSeq(t, 1, n)>> \o Split(SubSeq(t, n + 1, Len(t)))

\* sep.join(parts)
RECURSIVE Join(_, _)
Join(sep, parts) ==
    IF parts = << >> THEN << >>
    ELSE IF Len(parts) = 1 THEN parts[1]
    ELSE parts[1] \o sep \o Join(sep, Tail(parts))

\* "\n".join(ls).splitlines() for lines that hold no line break: a last line
\* that is empty is not a line of the joined text.
JoinSplitLines(ls) ==
    IF ls # << >> /\ ls[Len(ls)] = << >> THEN SubSeq(ls, 1, Len(ls) - 1) ELSE ls

(***************************************************************************)
(* Ordered dict (insertion order; assigning to a present key keeps its     *)
(* place) as a sequence of [k, v].                                         *)
(***************************************************************************)

Keys(d) == {d[j].k : j \in 1..Len(d)}

KeySeq(d) == [j \in 1..Len(d) |-> d[j].k]

Values(d) == [j \in 1..Len(d) |-> d[j].v]

Get(d, key) == d[CHOOSE j \in 1..Len(d) : d[j].k = key].v

\* d[key] = val that leaves a present key as it is.
Put_keep_first(d, key, val) ==
    IF key \in Keys(d) THEN d ELSE Append(d, [k |-> key, v |-> val])

\* d[key] = val
Put(d, key, val) ==
    IF key \in Keys(d)
    THEN [j \in 1..Len(d) |-> IF d[j].k = key THEN [k |-> key, v |-> val] ELSE d[j]]
    ELSE Append(d, [k |-> key, v |-> val])

(***************************************************************************)
(* Literals of the source                                                  *)
(***************************************************************************)

K_model_sp ==
    <<"m","o","d","e","l"," ">>
K_enum_sp ==
    <<"e","n","u","m"," ">>
K_enum ==
    <<"e","n","u","m">>
K_model ==
    <<"m","o","d","e","l">>
K_lbrace ==
    <<"{">>
K_rbrace ==
    <<"}">>
K_slashes ==
    <<"/","/">>
K_at_schema ==
    <<"@","@","s","c","h","e","m","a">>
K_at ==
    <<"@">>
K_atat ==
    <<"@","@">>
K_schema_open ==
    <<"@","@","s","c","h","e","m","a","(","\"">>
K_schema_close ==
    <<"\"",")">>
K_qmark ==
    <<"?">>
K_brackets ==
    <<"[","]">>
K_default ==
    <<"d","e","f","a","u","l","t">>
P_String ==
    <<"S","t","r","i","n","g">>
P_Int ==
    <<"I","n","t">>
P_Float ==
    <<"F","l","o","a","t">>
P_Boolean ==
    <<"B","o","o","l","e","a","n">>
P_DateTime ==
    <<"D","a","t","e","T","i","m","e">>
P_Json ==
    <<"J","s","o","n">>
P_BigInt ==
    <<"B","i","g","I","n","t">>
P_Decimal ==
    <<"D","e","c","i","m","a","l">>
T_string ==
    <<"s","t","r","i","n","g">>
T_number ==
    <<"n","u","m","b","e","r">>
T_boolean ==
    <<"b","o","o","l","e","a","n">>
T_DateTimeString ==
    <<"D","a","t","e","T","i","m","e","S","t","r","i","n","g">>
T_JsonValue ==
    <<"J","s","o","n","V","a","l","u","e">>
T_any ==
    <<"a","n","y">>
T_list ==
    <<"[","]">>
T_or_null ==
    <<" ","|"," ","n","u","l","l">>
T_bar ==
    <<" ","|"," ">>
T_quote ==
    <<"\"">>
T_comma ==
    <<","," ">>
T_empty ==
    << >>
S_hdr1 ==
    <<"/","/"," ","A","u","t","o","-","g","e","n","e","r","a","t","e","d"," ","f","r","o","m",
      " ","P","r","i","s","m","a"," ","s","c","h","e","m","a",".">>
S_hdr2 ==
    <<"/","/"," ","G","e","n","e","r","a","t","e","d"," ","b","y"," ","P","r","i","s","m","a",
      " ","T","y","p","e","T","a","g","s"," ","(","s","i","n","g","l","e"," ","f","i","l","e",
      ")",".">>
S_alias_date ==
    <<"e","x","p","o","r","t"," ","t","y","p","e"," ","D","a","t","e","T","i","m","e","S","t",
      "r","i","n","g"," ","="," ","s","t","r","i","n","g",";">>
S_alias_json ==
    <<"e","x","p","o","r","t"," ","t","y","p","e"," ","J","s","o","n","V","a","l","u","e"," ",
      "="," ","a","n","y",";">>
S_rule ==
    <<"/","/"," ","=","=","=","=","=","=","=","=","=","=","=","=","=","=","=","=","=","=","=",
      "=","=","=","=","=","=">>
S_enum_types ==
    <<"/","/"," ","E","N","U","M"," ","T","Y","P","E","S">>
S_forward ==
    <<"/","/"," ","F","O","R","W","A","R","D"," ","D","E","C","L","A","R","A","T","I","O","N",
      "S">>
S_models ==
    <<"/","/"," ","M","O","D","E","L","S">>
S_export_type ==
    <<"e","x","p","o","r","t"," ","t","y","p","e"," ">>
S_eq ==
    <<" ","="," ">>
S_semi ==
    <<";">>
S_export_interface ==
    <<"e","x","p","o","r","t"," ","i","n","t","e","r","f","a","c","e"," ">>
S_empty_body ==
    <<" ","{","}">>
S_open_body ==
    <<" ","{">>
S_close_body ==
    <<"}">>
S_indent ==
    <<" "," ">>
S_colon ==
    <<":"," ">>
S_Flat_open ==
    <<"F","l","a","t"," ","{">>
F_base_path ==
    <<"c","o","m","m","o","n","/","b","a","s","e",".","t","s">>
F_enums_path ==
    <<"c","o","m","m","o","n","/","e","n","u","m","s",".","t","s">>
F_index_path ==
    <<"i","n","d","e","x",".","t","s">>
F_models_path ==
    <<"m","o","d","e","l","s",".","t","s">>
F_models_suffix ==
    <<"/","m","o","d","e","l","s",".","t","s">>
F_hdr ==
    <<"/","/"," ","A","u","t","o","-","g","e","n","e","r","a","t","e","d"," ","b","y"," ","P",
      "r","i","s","m","a"," ","T","y","p","e","T","a","g","s">>
F_base_hdr ==
    <<"/","/"," ","C","o","m","m","o","n"," ","b","a","s","e"," ","t","y","p","e","s">>
F_enums_hdr ==
    <<"/","/"," ","E","n","u","m","s"," ","f","o","r"," ","t","h","e"," ","w","h","o","l","e",
      " ","s","c","h","e","m","a">>
F_schema_hdr ==
    <<"/","/"," ","T","y","p","e","s"," ","f","o","r"," ","s","c","h","e","m","a",":"," ">>
F_import_base ==
    <<"i","m","p","o","r","t"," ","t","y","p","e"," ","{"," ","D","a","t","e","T","i","m","e",
      "S","t","r","i","n","g",","," ","J","s","o","n","V","a","l","u","e"," ","}"," ","f","r",
      "o","m"," ","\"",".",".","/","c","o","m","m","o","n","/","b","a","s","e","\"",";">>
F_import_open ==
    <<"i","m","p","o","r","t"," ","t","y","p","e"," ","{"," ">>
F_import_enums_from ==
    <<" ","}"," ","f","r","o","m"," ","\"",".",".","/","c","o","m","m","o","n","/","e","n","u",
      "m","s","\"",";">>
F_import_from ==
    <<" ","}"," ","f","r","o","m"," ","\"",".",".","/">>
F_import_models_end ==
    <<"/","m","o","d","e","l","s","\"",";">>
F_export_base ==
    <<"e","x","p","o","r","t"," ","*"," ","f","r","o","m"," ","\"",".","/","c","o","m","m","o",
      "n","/","b","a","s","e","\"",";">>
F_export_enums ==
    <<"e","x","p","o","r","t"," ","*"," ","f","r","o","m"," ","\"",".","/","c","o","m","m","o",
      "n","/","e","n","u","m","s","\"",";">>
F_export_open ==
    <<"e","x","p","o","r","t"," ","*"," ","f","r","o","m"," ","\"",".","/">>
F_single_index ==
    <<"e","x","p","o","r","t"," ","*"," ","f","r","o","m"," ","\"",".","/","m","o","d","e","l",
      "s","\"",";">>

(***************************************************************************)
(* Parsing                                                                 *)
(***************************************************************************)

\* Optional[str]: None is << >>, a str s is <<s>>.
None == << >>

Some(s) == <<s>>

SCALAR_TS_MAP ==
    << [k |-> P_String, v |-> T_string],
       [k |-> P_Int, v |-> T_number],
       [k |-> P_Float, v |-> T_number],
       [k |-> P_Boolean, v |-> T_boolean],
       [k |-> P_DateTime, v |-> T_DateTimeString],
       [k |-> P_Json, v |-> T_JsonValue],
       [k |-> P_BigInt, v |-> T_number],
       [k |-> P_Decimal, v |-> T_number] >>

\* One line of strip_line_comments: everything from the first "//" on is cut.
StripComment(line) ==
    IF Contains(line, K_slashes) THEN SubSeq(line, 1, Find(line, K_slashes) - 1) ELSE line

strip_line_comments(text) ==
    JoinSplitLines([j \in 1..Len(text) |-> StripComment(text[j])])

\* re.search of the @@schema pattern in l: group 1 of the leftmost match, or None.
\* The group is one or more characters other than the double quote, between
\* the opening text and the closing text.
SchemaSearch(l) ==
    LET NextQuote(p) ==
            LET qs == {q \in (p + Len(K_schema_open))..Len(l) : l[q] = "\""}
            IN  IF qs = {} THEN 0 ELSE CHOOSE q \in qs : \A r \in qs : q <= r
        Matches(p) ==
            /\ SubSeq(l, p, p + Len(K_schema_open) - 1) = K_schema_open
            /\ NextQuote(p) > p + Len(K_schema_open)
            /\ SubSeq(l, NextQuote(p), NextQuote(p) + 1) = K_schema_close
        ps == {p \in 1..Len(l) : p + Len(K_schema_open) - 1 <= Len(l) /\ Matches(p)}
        p0 == CHOOSE p \in ps : \A r \in ps : p <= r
    IN  IF ps = {} THEN None
        ELSE Some(SubSeq(l, p0 + Len(K_schema_open), NextQuote(p0) - 1))

\* The lines of an enum body the loop passes over with "continue".
EnumSkips(l) ==
    \/ l = << >>
    \/ StartsWith(l, K_at_schema)
    \/ StartsWith(l, K_at)
    \/ StartsWith(l, K_atat)

\* l.split()[0] of an enum body line raises IndexError when split() is empty.
EnumLineRaises(raw) ==
    LET l == Strip(raw) IN ~EnumSkips(l) /\ Split(l) = << >>

\* The values one enum body line appends.
EnumLineValues(raw) ==
    LET l == Strip(raw)
    IN  IF EnumSkips(l) \/ Split(l) = << >> THEN << >>
        ELSE LET token == Split(l)[1] IN IF token # << >> THEN <<token>> ELSE << >>

RECURSIVE EnumValues(_)
EnumValues(body_lines) ==
    IF body_lines = << >> THEN << >>
    ELSE EnumLineValues(Head(body_lines)) \o EnumValues(Tail(body_lines))

EnumDef(name, body_lines) == [name |-> name, values |-> EnumValues(body_lines)]

\* The decomposition of a field's type token.
DecomposeType(type_token) ==
    LET is_optional == EndsWith(type_token, K_qmark)
        raw_type == IF is_optional THEN SubSeq(type_token, 1, Len(type_token) - 1)
                    ELSE type_token
        is_list == EndsWith(raw_type, K_brackets)
        base_type == IF is_list THEN SubSeq(raw_type, 1, Len(raw_type) - 2) ELSE raw_type
    IN  [type_name |-> base_type, is_optional |-> is_optional, is_list |-> is_list]

FieldDef(l) ==
    LET parts_f == Split(l)
        t == DecomposeType(parts_f[2])
    IN  [name |-> parts_f[1], type_name |-> t.type_name, is_optional |-> t.is_optional,
         is_list |-> t.is_list, raw_line |-> l]

\* One line of a model body, on the model built so far.
ModelLine(model, raw) ==
    LET l == Strip(raw)
    IN  IF l = << >> THEN model
        ELSE IF StartsWith(l, K_at_schema)
        THEN IF SchemaSearch(l) # None THEN [model EXCEPT !.schema = SchemaSearch(l)]
             ELSE model
        ELSE IF StartsWith(l, K_at) \/ StartsWith(l, K_atat) THEN model
        ELSE IF Len(Split(l)) < 2 THEN model
        ELSE [model EXCEPT !.fields = Append(@, FieldDef(l))]

RECURSIVE ModelLines(_, _)
ModelLines(model, body_lines) ==
    IF body_lines = << >> THEN model
    ELSE ModelLines(ModelLine(model, Head(body_lines)), Tail(body_lines))

ModelDef(name, body_lines) ==
    ModelLines([name |-> name, fields |-> << >>, schema |-> None], body_lines)

\* parse_prisma's locals before the first iteration.
ParseStart(text) ==
    [lines |-> strip_line_comments(text), i |-> 0, pc |-> "scan", kind |-> << >>,
     name |-> << >>, body_lines |-> << >>, enums |-> << >>, models |-> << >>]

\* lines[i] of the code (i counts from 0).
Line(s) == s.lines[s.i + 1]

IsHeader(line) == StartsWith(line, K_model_sp) \/ StartsWith(line, K_enum_sp)

\* One iteration of the outer loop up to the inner loops: a line that is no
\* header (or a header of fewer than two parts) is passed; a header sets kind and
\* name and goes on to the search for "{" or straight to the body.
StepScan(s) ==
    LET line == Strip(Line(s))
        parts == Split(line)
    IN  IF IsHeader(line) /\ Len(parts) >= 2
        THEN [s EXCEPT !.kind = parts[1], !.name = parts[2], !.i = @ + 1,
                       !.body_lines = << >>,
                       !.pc = IF Contains(line, K_lbrace) THEN "body" ELSE "seek"]
        ELSE [s EXCEPT !.i = @ + 1]

\* The loop that looks for "{": one iteration, or its end and the i += 1 after it.
StepSeek(s) ==
    IF s.i < Len(s.lines) /\ ~Contains(Line(s), K_lbrace)
    THEN [s EXCEPT !.i = @ + 1]
    ELSE [s EXCEPT !.i = @ + 1, !.pc = "body"]

\* The end of a block: the definition is built and stored, then the outer i += 1.
StoreBlock(s) ==
    IF s.kind = K_enum
    THEN IF \E j \in 1..Len(s.body_lines) : EnumLineRaises(s.body_lines[j])
         THEN [s EXCEPT !.pc = "raised"]
         ELSE [s EXCEPT !.enums = Put(@, s.name, EnumDef(s.name, s.body_lines)),
                        !.i = @ + 1, !.pc = "scan"]
    ELSE IF s.kind = K_model
    THEN [s EXCEPT !.models = Put(@, s.name, ModelDef(s.name, s.body_lines)),
                   !.i = @ + 1, !.pc = "scan"]
    ELSE [s EXCEPT !.i = @ + 1, !.pc = "scan"]

\* StepBody without the i += 1 of the collecting loop.
StepBody_no_advance(s) ==
    IF s.i < Len(s.lines) /\ Strip(Line(s)) # K_rbrace
    THEN [s EXCEPT !.body_lines = Append(@, Line(s))]
    ELSE StoreBlock(s)

\* The loop that collects the body: one iteration, or its end ("}" or no line left).
StepBody(s) ==
    IF s.i < Len(s.lines) /\ Strip(Line(s)) # K_rbrace
    THEN [s EXCEPT !.body_lines = Append(@, Line(s)), !.i = @ + 1]
    ELSE StoreBlock(s)

ParseStep(s) ==
    IF s.pc = "scan"
    THEN IF s.i < Len(s.lines) THEN StepScan(s) ELSE [s EXCEPT !.pc = "done"]
    ELSE IF s.pc = "seek" THEN StepSeek(s)
    ELSE IF s.pc = "body" THEN StepBody(s)
    ELSE s

RECURSIVE ParseRun(_)
ParseRun(s) == IF s.pc \in {"done", "raised"} THEN s ELSE ParseRun(ParseStep(s))

\* parse_prisma(schema): the locals at its return.
parse_prisma(text) == ParseRun(ParseStart(text))

(***************************************************************************)
(* TypeScript generation                                                   *)
(***************************************************************************)

RECURSIVE Concat(_)
Concat(ss) == IF ss = << >> THEN << >> ELSE Head(ss) \o Concat(Tail(ss))

\* prisma_field_to_ts with the optional test ahead of the list test.
prisma_field_to_ts_optional_first(field, model_names, enum_names) ==
    LET base == field.type_name
        is_model == base \in model_names
        is_scalar == base \in Keys(SCALAR_TS_MAP)
        ts_base == IF is_scalar THEN Get(SCALAR_TS_MAP, base) ELSE base
    IN  IF ~is_model /\ field.is_optional
        THEN IF field.is_list THEN ts_base \o T_list \o T_or_null ELSE ts_base \o T_or_null
        ELSE IF field.is_list
        THEN IF is_model THEN ts_base \o T_list \o T_or_null ELSE ts_base \o T_list
        ELSE IF is_model THEN ts_base \o T_or_null
        ELSE ts_base

prisma_field_to_ts(field, model_names, enum_names) ==
    LET base == field.type_name
        is_model == base \in model_names
        is_enum == base \in enum_names
        is_scalar == base \in Keys(SCALAR_TS_MAP)
        ts_base == IF is_scalar THEN Get(SCALAR_TS_MAP, base)
                   ELSE IF is_enum THEN base
                   ELSE base
    IN  IF field.is_list
        THEN IF is_model THEN ts_base \o T_list \o T_or_null ELSE ts_base \o T_list
        ELSE IF ~is_model /\ field.is_optional THEN ts_base \o T_or_null
        ELSE IF is_model THEN ts_base \o T_or_null
        ELSE ts_base

\* prisma_field_to_ts_flat with lists never nullable, as in the nested policy.
prisma_field_to_ts_flat_list_as_nested(field, enum_names) ==
    LET base == field.type_name
        is_enum == base \in enum_names
        is_scalar == base \in Keys(SCALAR_TS_MAP)
        ts_base == IF is_scalar THEN Get(SCALAR_TS_MAP, base)
                   ELSE IF is_enum THEN base
                   ELSE T_any
    IN  IF field.is_list THEN ts_base \o T_list
        ELSE IF field.is_optional THEN ts_base \o T_or_null
        ELSE ts_base

prisma_field_to_ts_flat(field, enum_names) ==
    LET base == field.type_name
        is_enum == base \in enum_names
        is_scalar == base \in Keys(SCALAR_TS_MAP)
        ts_base == IF is_scalar THEN Get(SCALAR_TS_MAP, base)
                   ELSE IF is_enum THEN base
                   ELSE T_any
    IN  IF field.is_list
        THEN IF field.is_optional THEN ts_base \o T_list \o T_or_null
             ELSE ts_base \o T_list
        ELSE IF field.is_optional THEN ts_base \o T_or_null
        ELSE ts_base

\* EnumUnion without the test that passes over an enum without values.
EnumUnion_keep_empty(enum) ==
    << S_export_type \o enum.name \o S_eq
       \o Join(T_bar, [j \in 1..Len(enum.values) |-> T_quote \o enum.values[j] \o T_quote])
       \o S_semi,
       T_empty >>

\* f'export type {enum.name} = {values_union};' and the empty line after it;
\* nothing for an enum without values.
EnumUnion(enum) ==
    IF enum.values = << >> THEN << >>
    ELSE << S_export_type \o enum.name \o S_eq
            \o Join(T_bar, [j \in 1..Len(enum.values) |-> T_quote \o enum.values[j] \o T_quote])
            \o S_semi,
            T_empty >>

\* f"  {field.name}: {ts_type};"
FieldLine(name, ts_type) == S_indent \o name \o S_colon \o ts_type \o S_semi

\* The full interface of a model in the single file, and its Flat interface.
SingleInterface(model, model_names, enum_names, generate_flat) ==
    << S_export_interface \o model.name \o S_open_body >>
    \o [j \in 1..Len(model.fields) |->
            FieldLine(model.fields[j].name,
                      prisma_field_to_ts(model.fields[j], model_names, enum_names))]
    \o << S_close_body, T_empty >>
    \o IF generate_flat
       THEN << S_export_interface \o model.name \o S_Flat_open >>
            \o Concat([j \in 1..Len(model.fields) |->
                   IF model.fields[j].type_name \in model_names THEN << >>
                   ELSE << FieldLine(model.fields[j].name,
                                     prisma_field_to_ts_flat(model.fields[j], enum_names)) >>])
            \o << S_close_body, T_empty >>
       ELSE << >>

\* The lines of the single file ("\n".join(lines) is its text).
generate_single_file(es, ms, generate_flat) ==
    LET model_names == Keys(ms)
        enum_names == Keys(es)
    IN  << S_hdr1, S_hdr2, T_empty, S_alias_date, S_alias_json, T_empty >>
        \o (IF es # << >>
            THEN << S_rule, S_enum_types, S_rule, T_empty >>
                 \o Concat([j \in 1..Len(es) |-> EnumUnion(es[j].v)])
            ELSE << >>)
        \o << S_rule, S_forward, S_rule, T_empty >>
        \o [j \in 1..Len(ms) |-> S_export_interface \o ms[j].k \o S_empty_body]
        \o << T_empty >>
        \o << S_rule, S_models, S_rule, T_empty >>
        \o Concat([j \in 1..Len(ms) |->
               SingleInterface(ms[j].v, model_names, enum_names, generate_flat)])

\* models_by_schema: partition name -> the models of the partition, in order.
RECURSIVE ModelsBySchema(_, _)
ModelsBySchema(by, ms) ==
    IF ms = << >> THEN by
    ELSE LET m == Head(ms).v
             key == IF m.schema # None /\ m.schema[1] # << >> THEN m.schema[1]
                    ELSE K_default
             lst == IF key \in Keys(by) THEN Get(by, key) ELSE << >>
         IN  ModelsBySchema(Put(by, key, Append(lst, m)), Tail(ms))

\* model_to_schema: model name -> partition name.
ModelToSchema(by) ==
    Concat([p \in 1..Len(by) |->
        [j \in 1..Len(by[p].v) |-> [k |-> by[p].v[j].name, v |-> by[p].k]]])

\* CrossImports without the test other_schema != schema_name.
RECURSIVE CrossImports_own_partition(_, _, _, _, _)
CrossImports_own_partition(acc, flds, schema_name, model_names, model_to_schema) ==
    IF flds = << >> THEN acc
    ELSE LET field == Head(flds)
             other_schema == IF field.type_name \in Keys(model_to_schema)
                             THEN Get(model_to_schema, field.type_name)
                             ELSE schema_name
             names == IF other_schema \in Keys(acc) THEN Get(acc, other_schema) ELSE {}
             next == IF field.type_name \in model_names
                     THEN Put(acc, other_schema, names \cup {field.type_name})
                     ELSE acc
         IN  CrossImports_own_partition(next, Tail(flds), schema_name, model_names,
                                        model_to_schema)

\* cross_imports: other partition -> the names imported from it, partitions in the
\* order they are first met.
RECURSIVE CrossImports(_, _, _, _, _)
CrossImports(acc, flds, schema_name, model_names, model_to_schema) ==
    IF flds = << >> THEN acc
    ELSE LET field == Head(flds)
             other_schema == IF field.type_name \in Keys(model_to_schema)
                             THEN Get(model_to_schema, field.type_name)
                             ELSE schema_name
             names == IF other_schema \in Keys(acc) THEN Get(acc, other_schema) ELSE {}
             next == IF field.type_name \in model_names /\ other_schema # schema_name
                     THEN Put(acc, other_schema, names \cup {field.type_name})
                     ELSE acc
         IN  CrossImports(next, Tail(flds), schema_name, model_names, model_to_schema)

\* f'import type {{ {imported_names} }} from "../{other_schema}/models";'
ImportLine(other_schema, names) ==
    IF names = {} THEN << >>
    ELSE << F_import_open \o Join(T_comma, Sorted(names)) \o F_import_from
            \o other_schema \o F_import_models_end >>

\* The full interface of a model in a partition file, and its Flat interface.
SplitInterface(m, model_names, enum_names, generate_flat) ==
    << S_export_interface \o m.name \o S_open_body >>
    \o [j \in 1..Len(m.fields) |->
            FieldLine(m.fields[j].name,
                      prisma_field_to_ts(m.fields[j], model_names, enum_names))]
    \o << S_close_body, T_empty >>
    \o IF generate_flat
       THEN << S_export_interface \o m.name \o S_Flat_open >>
            \o Concat([j \in 1..Len(m.fields) |->
                   IF m.fields[j].type_name \in model_names THEN << >>
                   ELSE << FieldLine(m.fields[j].name,
                                     prisma_field_to_ts_flat(m.fields[j], enum_names)) >>])
            \o << S_close_body, T_empty >>
       ELSE << >>

\* The lines of the file of one partition.
SchemaFile(schema_name, schema_models, es, model_names, enum_names, model_to_schema, generate_flat) ==
    LET cross_imports ==
            CrossImports(<< >>, Concat([j \in 1..Len(schema_models) |-> schema_models[j].fields]),
                         schema_name, model_names, model_to_schema)
    IN  << F_hdr, F_schema_hdr \o schema_name, F_import_base >>
        \o (IF es # << >>
            THEN << F_import_open \o Join(T_comma, Sorted(enum_names)) \o F_import_enums_from >>
            ELSE << >>)
        \o << T_empty >>
        \o Concat([j \in 1..Len(cross_imports) |->
               ImportLine(cross_imports[j].k, cross_imports[j].v)])
        \o (IF cross_imports # << >> THEN << T_empty >> ELSE << >>)
        \o Concat([j \in 1..Len(schema_models) |->
               SplitInterface(schema_models[j], model_names, enum_names, generate_flat)])

\* IndexFile with the partitions in the order of models_by_schema, not sorted.
IndexFile_unsorted(models_by_schema) ==
    << F_export_base, F_export_enums >>
    \o [j \in 1..Len(models_by_schema) |->
            F_export_open \o models_by_schema[j].k \o F_import_models_end]
    \o << T_empty >>

\* index.ts of the split output.
IndexFile(models_by_schema) ==
    << F_export_base, F_export_enums >>
    \o [j \in 1..Len(Sorted(Keys(models_by_schema))) |->
            F_export_open \o Sorted(Keys(models_by_schema))[j] \o F_import_models_end]
    \o << T_empty >>

RECURSIVE PutAll(_, _)
PutAll(d, kvs) == IF kvs = << >> THEN d ELSE PutAll(Put(d, Head(kvs).k, Head(kvs).v), Tail(kvs))

\* The artifact map: path -> the lines of the text.
generate_split_files(es, ms, generate_flat, generate_index) ==
    LET model_names == Keys(ms)
        enum_names == Keys(es)
        models_by_schema == ModelsBySchema(<< >>, ms)
        model_to_schema == ModelToSchema(models_by_schema)
        common ==
            << [k |-> F_base_path,
                v |-> << F_hdr, F_base_hdr, S_alias_date, S_alias_json, T_empty >>],
               [k |-> F_enums_path,
                v |-> << F_hdr, F_enums_hdr >>
                      \o (IF es # << >>
                          THEN << T_empty >> \o Concat([j \in 1..Len(es) |-> EnumUnion(es[j].v)])
                          ELSE << >>)] >>
        parts ==
            [p \in 1..Len(models_by_schema) |->
                [k |-> models_by_schema[p].k \o F_models_suffix,
                 v |-> SchemaFile(models_by_schema[p].k, models_by_schema[p].v, es,
                                  model_names, enum_names, model_to_schema, generate_flat)]]
        index == IF generate_index
                 THEN << [k |-> F_index_path, v |-> IndexFile(models_by_schema)] >>
                 ELSE << >>
    IN  PutAll(<< >>, common \o parts \o index)

\* prisma_to_ts(schema)
prisma_to_ts(text) ==
    LET p == parse_prisma(text) IN generate_single_file(p.enums, p.models, FALSE)

\* The files of PrismaToTSApp.generate_ts for a parsed schema.
GeneratedFiles(es, ms, split_by_schema, generate_flat, generate_index) ==
    IF split_by_schema THEN generate_split_files(es, ms, generate_flat, generate_index)
    ELSE << [k |-> F_models_path, v |-> generate_single_file(es, ms, generate_flat)] >>
         \o (IF generate_index
             THEN << [k |-> F_index_path, v |-> << F_single_index, T_empty >>] >>
             ELSE << >>)

\* The file shown in the preview pane.
PreviewName(fs) ==
    IF F_models_path \in Keys(fs) THEN F_models_path
    ELSE IF F_index_path \in Keys(fs) THEN F_index_path
    ELSE Sorted(Keys(fs))[1]

(***************************************************************************)
(* Schema texts                                                            *)
(***************************************************************************)

\* Bounds of the model.
MaxBlocks == 3

MaxLines == 4

Ch(c) == <<c>>

\* The four suffixes of a type token that Prisma writes: T, T?, T[], T[]?.
Plain == << >>

Opt == K_qmark

List == K_brackets

OptList == K_brackets \o K_qmark

Fld(n, t, m) == [name |-> n, type |-> t, mod |-> m]

Model(n, s, fs) ==
    [kind |-> K_model, name |-> n, schema |-> s, fields |-> fs, values |-> << >>,
     inline |-> FALSE]

Enum(n, vs) ==
    [kind |-> K_enum, name |-> n, schema |-> None, fields |-> << >>, values |-> vs,
     inline |-> FALSE]

\* enum <name> {} on one line.
InlineEnum(n) ==
    [kind |-> K_enum, name |-> n, schema |-> None, fields |-> << >>, values |-> << >>,
     inline |-> TRUE]

N_Empty == <<"E","m","p","t","y">>

\* The text of a declaration: header line, one line per field or value, the
\* @@schema line of a model that has one, and the closing "}" line.
Render(d) ==
    IF d.inline THEN << d.kind \o Ch(" ") \o d.name \o Ch(" ") \o K_lbrace \o K_rbrace >>
    ELSE << d.kind \o Ch(" ") \o d.name \o Ch(" ") \o K_lbrace >>
         \o [j \in 1..Len(d.fields) |->
                S_indent \o d.fields[j].name \o Ch(" ") \o d.fields[j].type \o d.fields[j].mod]
         \o [j \in 1..Len(d.values) |-> S_indent \o d.values[j]]
         \o (IF d.schema # None
             THEN << S_indent \o K_schema_open \o d.schema[1] \o K_schema_close >>
             ELSE << >>)
         \o << K_rbrace >>

RenderAll(ds) == Concat([j \in 1..Len(ds) |-> Render(ds[j])])

\* Sequences over S of length at most n.
SeqsUpTo(S, n) == UNION {[1..k -> S] : k \in 0..n}

\* Declarations for the type mapper and the name handling: enums with and
\* without values, an enum and a model that share a name, a model named like a
\* scalar, a model declared twice, fields of every classification.
MainDecls ==
    { Enum(Ch("R"), <<Ch("U"), Ch("V")>>),
      Enum(Ch("R"), << >>),
      Enum(Ch("A"), <<Ch("U")>>),
      Model(Ch("A"), Some(Ch("x")),
            << Fld(Ch("i"), P_Int, Plain), Fld(Ch("r"), Ch("R"), Opt),
               Fld(Ch("b"), Ch("B"), List), Fld(Ch("t"), Ch("T"), OptList) >>),
      Model(Ch("A"), None,
            << Fld(Ch("s"), P_String, Opt), Fld(Ch("a"), Ch("A"), Plain) >>),
      Model(Ch("B"), Some(Ch("y")),
            << Fld(Ch("a"), Ch("A"), Opt), Fld(Ch("d"), P_DateTime, OptList),
               Fld(Ch("u"), Ch("T"), Plain), Fld(Ch("r"), Ch("R"), List) >>),
      Model(P_String, Some(Ch("y")), << Fld(Ch("j"), P_Json, Plain) >>),
      Model(Ch("P"), Some(Ch("x")),
            << Fld(Ch("s"), P_String, Plain), Fld(Ch("e"), Ch("A"), Plain),
               Fld(Ch("l"), P_String, List) >>) }

\* Declarations for the partitions: models of three partitions that refer to
\* each other.
SplitDecls ==
    { Model(Ch("A"), Some(Ch("x")),
            << Fld(Ch("c"), Ch("C"), Plain), Fld(Ch("b"), Ch("B"), Opt),
               Fld(Ch("a"), Ch("A"), List) >>),
      Model(Ch("B"), Some(Ch("y")), << Fld(Ch("a"), Ch("A"), Plain) >>),
      Model(Ch("C"), Some(Ch("y")), << >>),
      Model(Ch("C"), None, << Fld(Ch("b"), Ch("B"), Plain) >>),
      Model(Ch("B"), None, << Fld(Ch("c"), Ch("C"), List), Fld(Ch("i"), P_Int, Plain) >>),
      Model(Ch("D"), Some(Ch("x")), << Fld(Ch("b"), Ch("B"), Opt) >>) }

\* Declarations around the one-line empty enum.
EmptyDecls ==
    { InlineEnum(N_Empty),
      Model(Ch("A"), None, << Fld(Ch("i"), P_Int, Plain) >>),
      Enum(Ch("R"), <<Ch("U")>>) }

\* Lines of arbitrary text: headers with and without "{", a header without a
\* name, field lines whose type token stacks suffixes, a value line with a
\* comment, "}" and the empty line.
RawLines ==
    { K_enum_sp \o N_Empty \o Ch(" ") \o K_lbrace \o K_rbrace,
      K_model_sp \o Ch("A") \o Ch(" ") \o K_lbrace,
      K_enum_sp \o Ch("R"),
      K_model,
      K_rbrace,
      <<"x"," ","T","?","[","]">>,
      <<"U"," ","/","/"," ","}">>,
      << >> }

(***************************************************************************)
(* The program                                                             *)
(***************************************************************************)

Idle ==
    /\ mfield = << >>
    /\ mmodels = {}
    /\ menums = {}
    /\ mts = None

InitFrom(Decls) ==
    /\ decls \in SeqsUpTo(Decls, MaxBlocks)
    /\ schema = RenderAll(decls)
    /\ st = ParseStart(schema)
    /\ enums = << >>
    /\ models = << >>
    /\ files = << >>
    /\ opts = << >>
    /\ preview_file = None
    /\ steps = 0
    /\ phase = "input"
    /\ Idle

Init == InitFrom(MainDecls)

InitSplit == InitFrom(SplitDecls)

InitEmpty == InitFrom(EmptyDecls)

InitRaw ==
    /\ decls = << >>
    /\ schema \in SeqsUpTo(RawLines, MaxLines)
    /\ st = ParseStart(schema)
    /\ enums = << >>
    /\ models = << >>
    /\ files = << >>
    /\ opts = << >>
    /\ preview_file = None
    /\ steps = 0
    /\ phase = "input"
    /\ Idle

\* schema.strip() is empty
Blank(text) == \A j \in 1..Len(text) : Strip(text[j]) = << >>

\* PrismaToTSApp.generate_ts on a schema that is not blank.
GenerateTs(split_by_schema, generate_flat, generate_index) ==
    /\ phase = "input"
    /\ ~Blank(schema)
    /\ LET p == parse_prisma(schema)
           fs == GeneratedFiles(p.enums, p.models, split_by_schema, generate_flat,
                                generate_index)
       IN  IF p.pc = "raised"
           THEN /\ st' = p
                /\ phase' = "error"
                /\ UNCHANGED <<enums, models, files, opts, preview_file>>
           ELSE /\ st' = p
                /\ enums' = p.enums
                /\ models' = p.models
                /\ files' = fs
                /\ opts' = [split_by_schema |-> split_by_schema,
                            generate_flat |-> generate_flat,
                            generate_index |-> generate_index]
                /\ preview_file' = Some(PreviewName(fs))
                /\ phase' = "done"
    /\ UNCHANGED <<schema, decls, steps, mfield, mmodels, menums, mts>>

\* PrismaToTSApp.generate_ts on a blank schema: a warning, nothing generated.
GenerateTsBlank ==
    /\ phase = "input"
    /\ Blank(schema)
    /\ phase' = "skipped"
    /\ UNCHANGED <<schema, decls, st, enums, models, files, opts, preview_file, steps,
                   mfield, mmodels, menums, mts>>

Next ==
    \/ \E s, f, x \in BOOLEAN : GenerateTs(s, f, x)
    \/ GenerateTsBlank

Spec == Init /\ [][Next]_vars

SpecSplit == InitSplit /\ [][Next]_vars

SpecEmpty == InitEmpty /\ [][Next]_vars

\* parse_prisma step by step. The conditions of its loops and branches, at the
\* current position:
AtLine == st.pc = "scan" /\ st.i < Len(st.lines)

AtHeader == IsHeader(Strip(Line(st))) /\ Len(Split(Strip(Line(st)))) >= 2

Seeking == st.pc = "seek" /\ st.i < Len(st.lines) /\ ~Contains(Line(st), K_lbrace)

SeekOver == st.pc = "seek" /\ ~(st.i < Len(st.lines) /\ ~Contains(Line(st), K_lbrace))

Collecting == st.pc = "body" /\ st.i < Len(st.lines) /\ Strip(Line(st)) # K_rbrace

BodyOver == st.pc = "body" /\ ~(st.i < Len(st.lines) /\ Strip(Line(st)) # K_rbrace)

AtEnd == st.pc = "scan" /\ st.i >= Len(st.lines)

PassLine ==
    /\ AtLine /\ ~AtHeader
    /\ st' = StepScan(st)
    /\ steps' = steps + 1
    /\ UNCHANGED <<schema, decls, enums, models, files, opts, preview_file, phase,
                   mfield, mmodels, menums, mts>>

OpenBlock ==
    /\ AtLine /\ AtHeader
    /\ st' = StepScan(st)
    /\ steps' = steps + 1
    /\ UNCHANGED <<schema, decls, enums, models, files, opts, preview_file, phase,
                   mfield, mmodels, menums, mts>>

SeekBrace ==
    /\ Seeking
    /\ st' = StepSeek(st)
    /\ steps' = steps + 1
    /\ UNCHANGED <<schema, decls, enums, models, files, opts, preview_file, phase,
                   mfield, mmodels, menums, mts>>

FoundBrace ==
    /\ SeekOver
    /\ st' = StepSeek(st)
    /\ steps' = steps + 1
    /\ UNCHANGED <<schema, decls, enums, models, files, opts, preview_file, phase,
                   mfield, mmodels, menums, mts>>

CollectBody ==
    /\ Collecting
    /\ st' = StepBody(st)
    /\ steps' = steps + 1
    /\ UNCHANGED <<schema, decls, enums, models, files, opts, preview_file, phase,
                   mfield, mmodels, menums, mts>>

CloseBlock ==
    /\ BodyOver
    /\ st' = StepBody(st)
    /\ steps' = steps + 1
    /\ UNCHANGED <<schema, decls, enums, models, files, opts, preview_file, phase,
                   mfield, mmodels, menums, mts>>

Return ==
    /\ AtEnd
    /\ st' = ParseStep(st)
    /\ enums' = st.enums
    /\ models' = st.models
    /\ phase' = "parsed"
    /\ UNCHANGED <<schema, decls, files, opts, preview_file, steps, mfield, mmodels,
                   menums, mts>>

NextRaw ==
    \/ PassLine
    \/ OpenBlock
    \/ SeekBrace
    \/ FoundBrace
    \/ CollectBody
    \/ CloseBlock
    \/ Return

SpecRaw == InitRaw /\ [][NextRaw]_vars

(***************************************************************************)
(* The type mapper alone                                                   *)
(***************************************************************************)

\* Base types: the scalar vocabulary and four other names.
MapTypes == Keys(SCALAR_TS_MAP) \cup {Ch("A"), Ch("B"), Ch("R"), Ch("T")}

\* Names a schema may give its models and its enums.
MapModelNames == {Ch("A"), Ch("B"), P_String}

MapEnumNames == {Ch("R"), Ch("A"), P_Int}

InitMap ==
    /\ \E t \in MapTypes, m \in {Plain, Opt, List, OptList} :
           mfield = FieldDef(Ch("f") \o Ch(" ") \o t \o m)
    /\ mmodels \in SUBSET MapModelNames
    /\ menums \in SUBSET MapEnumNames
    /\ mts = None
    /\ decls = << >>
    /\ schema = << >>
    /\ st = ParseStart(schema)
    /\ enums = << >>
    /\ models = << >>
    /\ files = << >>
    /\ opts = << >>
    /\ preview_file = None
    /\ steps = 0
    /\ phase = "input"

\* ts_type = prisma_field_to_ts(field, model_names, enum_names)
MapField ==
    /\ mts = None
    /\ mts' = Some([policy |-> "nested",
                    ts |-> prisma_field_to_ts(mfield, mmodels, menums)])
    /\ UNCHANGED <<schema, decls, st, enums, models, files, opts, preview_file, steps,
                   phase, mfield, mmodels, menums>>

\* ts_type_flat = prisma_field_to_ts_flat(field, enum_names), which the emitters
\* call for the fields whose type is no model name.
MapFieldFlat ==
    /\ mts = None
    /\ mfield.type_name \notin mmodels
    /\ mts' = Some([policy |-> "flat", ts |-> prisma_field_to_ts_flat(mfield, menums)])
    /\ UNCHANGED <<schema, decls, st, enums, models, files, opts, preview_file, steps,
                   phase, mfield, mmodels, menums>>

NextMap ==
    \/ MapField
    \/ MapFieldFlat

SpecMap == InitMap /\ [][NextMap]_vars

(***************************************************************************)
(* Reading the generated text                                              *)
(***************************************************************************)

\* The target name the specification gives each scalar.
ScalarTarget(t) ==
    IF t = P_String THEN T_string
    ELSE IF t \in {P_Int, P_Float, P_BigInt, P_Decimal} THEN T_number
    ELSE IF t = P_Boolean THEN T_boolean
    ELSE IF t = P_DateTime THEN T_DateTimeString
    ELSE T_JsonValue

ScalarNames ==
    {P_String, P_Int, P_Float, P_BigInt, P_Decimal, P_Boolean, P_DateTime, P_Json}

\* The places of line l in a text.
Places(text, l) == {k \in 1..Len(text) : text[k] = l}

\* The lines after line k of a text, up to the next line that is "}".
BodyAt(text, k) ==
    LET ends == {e \in (k + 1)..Len(text) : text[e] = <<"}">>}
    IN  IF ends = {} THEN SubSeq(text, k + 1, Len(text))
        ELSE SubSeq(text, k + 1, (CHOOSE e \in ends : \A x \in ends : e <= x) - 1)

\* export interface <n> {   and   export interface <n>Flat {
FullHeader(n) == S_export_interface \o n \o <<" ", "{">>

FlatHeader(n) == S_export_interface \o n \o <<"F", "l", "a", "t", " ", "{">>

\* "  <name>: <type>;"
Member(name, type) == <<" ", " ">> \o name \o <<":", " ">> \o type \o <<";">>

\* import type { N1, N2 } from "../Q/models";  its names in order, and its Q.
IsModelImport(line) ==
    StartsWith(line, F_import_open) /\ EndsWith(line, F_import_models_end)

ImportNames(line) ==
    LET toks == Split(line)
        close == CHOOSE k \in 1..Len(toks) : toks[k] = <<"}">>
    IN  [k \in 1..(close - 4) |->
            IF EndsWith(toks[k + 3], <<",">>)
            THEN SubSeq(toks[k + 3], 1, Len(toks[k + 3]) - 1)
            ELSE toks[k + 3]]

ImportSource(line) ==
    LET toks == Split(line)
        last == toks[Len(toks)]
    IN  SubSeq(last, 5, Len(last) - Len(F_import_models_end))

Range(s) == {s[k] : k \in 1..Len(s)}

(***************************************************************************)
(* Claims                                                                  *)
(***************************************************************************)

\* The rows of the nested table for a field of one classification at most.
\* The table has no row for an optional non-list field of unknown type.
NestedTable(f, model_names, enum_names) ==
    LET scalar == f.type_name \in ScalarNames
        enum == f.type_name \in enum_names
        relation == f.type_name \in model_names
        b == IF scalar THEN ScalarTarget(f.type_name) ELSE f.type_name
    IN  IF f.is_list /\ relation THEN {b \o T_list \o T_or_null}
        ELSE IF f.is_list THEN {b \o T_list}
        ELSE IF relation THEN {b \o T_or_null}
        ELSE IF f.is_optional /\ (scalar \/ enum) THEN {b \o T_or_null}
        ELSE IF ~f.is_optional THEN {b}
        ELSE {b, b \o T_or_null}

OneClassAtMost(t, model_names, enum_names) ==
    Cardinality({c \in {"scalar", "enum", "model"} :
        \/ c = "scalar" /\ t \in ScalarNames
        \/ c = "enum" /\ t \in enum_names
        \/ c = "model" /\ t \in model_names}) <= 1

\* C1: for a field whose type name is in at most one of the scalar vocabulary,
\* the enum names and the model names, prisma_field_to_ts returns the row of the
\* nested table: list relation Base[] | null, other list Base[], non-list
\* relation Base | null, non-list optional scalar or enum Base | null, non-list
\* required Base; Base the mapped scalar name or the type name itself.
C1_NestedTable ==
    (mts # None /\ mts[1].policy = "nested"
        /\ OneClassAtMost(mfield.type_name, mmodels, menums))
    => mts[1].ts \in NestedTable(mfield, mmodels, menums)

\* A list of models, pets Pet[], has been mapped to Pet[] | null.
C1_Witness ==
    /\ mts # None /\ mts[1].policy = "nested"
    /\ mfield.type_name = Ch("B") /\ mfield.is_list /\ ~mfield.is_optional
    /\ mmodels = {Ch("A"), Ch("B")} /\ menums = {Ch("R")}
    /\ mts[1].ts = <<"B", "[", "]", " ", "|", " ", "n", "u", "l", "l">>

\* The scalar/enum row of the nested table.
ScalarEnumRow(f) ==
    LET b == IF f.type_name \in ScalarNames THEN ScalarTarget(f.type_name) ELSE f.type_name
    IN  IF f.is_list THEN b \o T_list
        ELSE IF f.is_optional THEN b \o T_or_null
        ELSE b

\* C2: a field whose type name is in the scalar vocabulary, or else is an enum
\* name, is treated as a scalar or an enum by every stage, also when a model
\* bears the same name: its line in the full interface is the scalar/enum row of
\* the nested table, it is kept in the Flat interface, and the file of its
\* partition imports no model of that name.
C2_ClassificationPriority ==
    phase = "done" =>
        \A j \in 1..Len(models) : \A fj \in 1..Len(models[j].v.fields) :
            LET m == models[j].v
                f == m.fields[fj]
            IN  (f.type_name \in ScalarNames \/ f.type_name \in Keys(enums)) =>
                \A a \in 1..Len(files) :
                    LET text == files[a].v
                    IN  \A k \in Places(text, FullHeader(m.name)) :
                        /\ BodyAt(text, k)[fj] = Member(f.name, ScalarEnumRow(f))
                        /\ opts.generate_flat =>
                              \E h \in Places(text, FlatHeader(m.name)) :
                                  \E line \in Range(BodyAt(text, h)) :
                                      StartsWith(line, <<" ", " ">> \o f.name \o <<":", " ">>)
                        /\ opts.split_by_schema =>
                              \A line \in Range(text) :
                                  IsModelImport(line) =>
                                      f.type_name \notin Range(ImportNames(line))

\* The flat policy as the specification states it.
FlatRow(f, enum_names) ==
    LET b == IF f.type_name \in ScalarNames THEN ScalarTarget(f.type_name)
             ELSE IF f.type_name \in enum_names THEN f.type_name
             ELSE <<"a", "n", "y">>
    IN  IF f.is_list
        THEN IF f.is_optional THEN b \o T_list \o T_or_null ELSE b \o T_list
        ELSE IF f.is_optional THEN b \o T_or_null
        ELSE b

\* The members of the Flat interface of model m: its fields whose type is not
\* the name of a model, in order, each with its flat type.
FlatMembers(m, model_names, enum_names) ==
    LET Kept(f) == f.type_name \notin model_names
        kept == SelectSeq(m.fields, Kept)
    IN  [k \in 1..Len(kept) |-> Member(kept[k].name, FlatRow(kept[k], enum_names))]

IsFlatHeader(line) ==
    StartsWith(line, S_export_interface) /\ EndsWith(line, <<"F", "l", "a", "t", " ", "{">>)

\* C3: with generateFlat, each emitter writes for every model M one interface
\* MFlat whose members are the fields of M whose type is not a model name, in
\* declaration order, typed by the flat policy; without generateFlat no artifact
\* holds a Flat interface.
C3_FlatProjection ==
    phase = "done" =>
        IF opts.generate_flat
        THEN \A j \in 1..Len(models) :
                LET m == models[j].v
                    holders == {a \in 1..Len(files) :
                                   Places(files[a].v, FlatHeader(m.name)) # {}}
                IN  /\ Cardinality(holders) = 1
                    /\ \A a \in holders :
                          /\ Cardinality(Places(files[a].v, FlatHeader(m.name))) = 1
                          /\ Places(files[a].v, FullHeader(m.name)) # {}
                          /\ \A k \in Places(files[a].v, FlatHeader(m.name)) :
                                BodyAt(files[a].v, k)
                                    = FlatMembers(m, Keys(models), Keys(enums))
        ELSE \A a \in 1..Len(files) : \A line \in Range(files[a].v) : ~IsFlatHeader(line)

\* Model B (a A?, d DateTime[]?, u T, r R[]) beside model A and enum R, split
\* and single output: BFlat holds d, u and r and not the relation a.
C3_WitnessIn(split) ==
    /\ phase = "done" /\ opts.generate_flat /\ opts.split_by_schema = split
    /\ Ch("A") \in Keys(models) /\ Ch("R") \in Keys(enums)
    /\ \E a \in 1..Len(files) : \E k \in Places(files[a].v, FlatHeader(Ch("B"))) :
          BodyAt(files[a].v, k)
              = << Member(Ch("d"), T_DateTimeString \o T_list \o T_or_null),
                   Member(Ch("u"), T_any),
                   Member(Ch("r"), Ch("R") \o T_list) >>

C3_Witness == C3_WitnessIn(TRUE)

\* C4: when the schema holds the one-line declaration enum Empty {}, no
\* artifact of either output mode declares export type Empty = ..., and every
\* block declared after it is parsed as a definition of its own.
C4_EmptyEnum ==
    phase = "done" =>
        \A k \in 1..Len(decls) :
            decls[k] = InlineEnum(N_Empty) =>
                /\ \A a \in 1..Len(files) : \A line \in Range(files[a].v) :
                      ~StartsWith(line, S_export_type \o N_Empty \o S_eq)
                /\ \A x \in (k + 1)..Len(decls) :
                      IF decls[x].kind = K_enum THEN decls[x].name \in Keys(enums)
                      ELSE decls[x].name \in Keys(models)

\* The names a text declares: the third word of every line that begins with
\* "export type " or "export interface ", Flat interfaces aside.
IsDeclaration(line) ==
    (StartsWith(line, S_export_type) \/ StartsWith(line, S_export_interface))
        /\ ~IsFlatHeader(line)

DeclaredNames(text) ==
    LET ds == SelectSeq(text, IsDeclaration)
    IN  [k \in 1..Len(ds) |-> Split(ds[k])[3]]

\* The names a schema declares, each once, at the place of its first declaration.
RECURSIVE FirstNames(_, _)
FirstNames(ds, seen) ==
    IF ds = << >> THEN << >>
    ELSE IF <<Head(ds).kind, Head(ds).name>> \in seen THEN FirstNames(Tail(ds), seen)
    ELSE <<Head(ds)>> \o FirstNames(Tail(ds), seen \cup {<<Head(ds).kind, Head(ds).name>>})

\* The last declaration of a name in a schema.
LastDecl(ds, kind, name) ==
    ds[CHOOSE k \in 1..Len(ds) :
          /\ ds[k].kind = kind /\ ds[k].name = name
          /\ \A x \in (k + 1)..Len(ds) : ~(ds[x].kind = kind /\ ds[x].name = name)]

NamesOf(ds) == [k \in 1..Len(ds) |-> ds[k].name]

IsEnumDecl(d) == d.kind = K_enum

IsModelDecl(d) == d.kind = K_model

\* s without the elements that are not in S.
Restrict(s, S) == LET In(x) == x \in S IN SelectSeq(s, In)

\* C5 as stated: the names declared by the single file hold every declared
\* enum name and every declared model name exactly once, in declaration order.
C5_NamesOnce ==
    (phase = "done" /\ ~opts.split_by_schema) =>
        LET text == Get(files, F_models_path)
            declared == NamesOf(FirstNames(decls, {}))
        IN  Restrict(DeclaredNames(text), Range(declared)) = declared

\* C5 amended: after the two base aliases, the export type lines name the enums
\* whose last declaration has a value, each once, in order of first
\* declaration; the export interface lines name every model twice, all of them
\* as the empty placeholder and then all of them as the full interface, each
\* time in order of first declaration.
C5_NamesAmended ==
    (phase = "done" /\ ~opts.split_by_schema) =>
        LET text == Get(files, F_models_path)
            first == FirstNames(decls, {})
            HasValue(d) == LastDecl(decls, d.kind, d.name).values # << >>
            es == NamesOf(SelectSeq(SelectSeq(first, IsEnumDecl), HasValue))
            ms == NamesOf(SelectSeq(first, IsModelDecl))
            IsType(line) == StartsWith(line, S_export_type)
            IsInterface(line) == StartsWith(line, S_export_interface) /\ ~IsFlatHeader(line)
            types == SelectSeq(text, IsType)
            ifaces == SelectSeq(text, IsInterface)
        IN  /\ Len(types) = 2 + Len(es)
            /\ types[1] = S_alias_date /\ types[2] = S_alias_json
            /\ \A k \in 1..Len(es) : StartsWith(types[2 + k], S_export_type \o es[k] \o S_eq)
            /\ ifaces = [k \in 1..Len(ms) |-> S_export_interface \o ms[k] \o <<" ", "{", "}">>]
                        \o [k \in 1..Len(ms) |-> FullHeader(ms[k])]

\* enum R {U V}, model B, enum A {U}: the text declares the base aliases, R and
\* A, and then B twice.
C5_Witness ==
    /\ phase = "done" /\ ~opts.split_by_schema
    /\ Len(decls) = 3
    /\ decls[1].kind = K_enum /\ decls[1].name = Ch("R") /\ decls[1].values # << >>
    /\ decls[2].kind = K_model /\ decls[2].name = Ch("B")
    /\ decls[3].kind = K_enum /\ decls[3].name = Ch("A")
    /\ DeclaredNames(Get(files, F_models_path))
           = << T_DateTimeString, T_JsonValue, Ch("R"), Ch("A"), Ch("B"), Ch("B") >>

\* The FieldDef sequence a model declaration states.
DeclaredFields(d) ==
    [k \in 1..Len(d.fields) |->
        [name |-> d.fields[k].name,
         type_name |-> d.fields[k].type,
         is_optional |-> d.fields[k].mod \in {Opt, OptList},
         is_list |-> d.fields[k].mod \in {List, OptList},
         raw_line |-> d.fields[k].name \o <<" ">> \o d.fields[k].type \o d.fields[k].mod]]

\* C6: for a name declared once or several times as a model (as an enum), the
\* model (enum) collection holds exactly one definition of that name, with the
\* fields and the schema (the values) of the last declaration and nothing of an
\* earlier one, and the output holds exactly one full interface of a model.
C6_LastWriteWins ==
    phase = "done" =>
        \A k \in 1..Len(decls) :
            LET d == decls[k]
                last == LastDecl(decls, d.kind, d.name)
            IN  IF d.kind = K_model
                THEN /\ Cardinality({j \in 1..Len(models) : models[j].k = d.name}) = 1
                     /\ Get(models, d.name)
                            = [name |-> d.name, fields |-> DeclaredFields(last),
                               schema |-> last.schema]
                     /\ Cardinality({<<a, x>> \in UNION {{a} \X (1..Len(files[a].v)) :
                                                            a \in 1..Len(files)} :
                                        files[a].v[x] = FullHeader(d.name)}) = 1
                ELSE /\ Cardinality({j \in 1..Len(enums) : enums[j].k = d.name}) = 1
                     /\ Get(enums, d.name) = [name |-> d.name, values |-> last.values]

\* model A declared with four fields in partition x and again with two fields
\* and no partition: the one model A has the two fields and no schema.
C6_Witness ==
    /\ phase = "done"
    /\ Len(decls) = 2
    /\ decls[1].kind = K_model /\ decls[1].name = Ch("A") /\ decls[1].schema = Some(Ch("x"))
    /\ decls[2].kind = K_model /\ decls[2].name = Ch("A") /\ decls[2].schema = None
    /\ Len(models) = 1
    /\ models[1].v.schema = None
    /\ [k \in 1..Len(models[1].v.fields) |-> models[1].v.fields[k].name] = <<Ch("s"), Ch("a")>>

\* The partition of a parsed model: the string of its @@schema annotation, or
\* default.
PartitionOf(m) == IF m.schema = None THEN <<"d", "e", "f", "a", "u", "l", "t">> ELSE m.schema[1]

Partitions == {PartitionOf(models[j].v) : j \in 1..Len(models)}

PartitionFile(P) == Get(files, P \o <<"/", "m", "o", "d", "e", "l", "s", ".", "t", "s">>)

\* The type names of the fields of the models of partition P, models and fields
\* in source order.
RefsOf(P) ==
    Concat([j \in 1..Len(models) |->
        IF PartitionOf(models[j].v) = P
        THEN [k \in 1..Len(models[j].v.fields) |-> models[j].v.fields[k].type_name]
        ELSE << >>])

\* The models of partition Q that a field of partition P names.
RefsTo(P, Q) ==
    {n \in Range(RefsOf(P)) : n \in Keys(models) /\ PartitionOf(Get(models, n)) = Q}

\* The place in RefsOf(P) where partition Q is first met.
FirstRef(P, Q) ==
    CHOOSE k \in 1..Len(RefsOf(P)) :
        /\ RefsOf(P)[k] \in RefsTo(P, Q)
        /\ \A x \in 1..(k - 1) : RefsOf(P)[x] \notin RefsTo(P, Q)

ImportsOf(P) == SelectSeq(PartitionFile(P), IsModelImport)

\* C7: the file of partition P imports from the file of another partition Q
\* exactly when a field of a model of P names a model of Q; with one import
\* statement per Q at most, which lists exactly the named models of Q, each once
\* and sorted; the statements stand in the order in which their partitions are
\* first met; P does not import from its own file.
C7_CrossImports ==
    (phase = "done" /\ opts.split_by_schema) =>
        \A P \in Partitions :
            LET imps == ImportsOf(P)
                src == [k \in 1..Len(imps) |-> ImportSource(imps[k])]
            IN  /\ \A Q \in Partitions \ {P} : (Q \in Range(src)) <=> (RefsTo(P, Q) # {})
                /\ \A k, l \in 1..Len(imps) : src[k] = src[l] => k = l
                /\ \A k \in 1..Len(imps) :
                      LET ns == ImportNames(imps[k])
                      IN  /\ src[k] \in Partitions \ {P}
                          /\ Range(ns) = RefsTo(P, src[k])
                          /\ \A x \in 1..(Len(ns) - 1) : StrLess(ns[x], ns[x + 1])
                /\ \A k, l \in 1..Len(imps) :
                      k < l => FirstRef(P, src[k]) < FirstRef(P, src[l])

\* A (partition x, fields c C, b B?, a A[]) with C in y and B in default, B
\* declared before C: x/models.ts imports C from y and then B from default.
C7_Witness ==
    /\ phase = "done" /\ opts.split_by_schema
    /\ KeySeq(models) = <<Ch("A"), Ch("B"), Ch("C")>>
    /\ RefsOf(Ch("x")) = <<Ch("C"), Ch("B"), Ch("A")>>
    /\ [k \in 1..Len(ImportsOf(Ch("x"))) |-> ImportSource(ImportsOf(Ch("x"))[k])]
           = <<Ch("y"), K_default>>
    /\ ImportNames(ImportsOf(Ch("x"))[1]) = <<Ch("C")>>
    /\ ImportsOf(Ch("y")) = << >>

\* A (partition x) names C and then B, both of partition y: one import statement
\* lists B, C.
C7_SortedNamesSeen ==
    /\ phase = "done" /\ opts.split_by_schema
    /\ RefsOf(Ch("x")) = <<Ch("C"), Ch("B"), Ch("A")>>
    /\ Len(ImportsOf(Ch("x"))) = 1
    /\ ImportNames(ImportsOf(Ch("x"))[1]) = <<Ch("B"), Ch("C")>>

\* C8: parse_prisma raises nothing and returns, for every text: every step
\* taken (an iteration of the outer loop or of an inner loop, or the end of an
\* inner loop) has moved the cursor i forward by one, so the steps are bounded
\* by the number of lines (plus the two moves that end a block at the end of the
\* text); a call that has not returned is at a line of the outer loop, in one
\* of the inner loops or at their end, or at the end of the outer loop, so that
\* a step can be taken; it returns only with the cursor at or past the end.
C8_ParseTotal ==
    /\ st.pc # "raised"
    /\ st.i = steps
    /\ steps <= Len(st.lines) + 2
    /\ st.pc # "done" => (AtLine \/ Seeking \/ SeekOver \/ Collecting \/ BodyOver \/ AtEnd)
    /\ st.pc = "done" => st.i >= Len(st.lines)

\* enum R with no "{" up to the end of the text: the search runs off the end,
\* the body is empty, an enum R without values is returned.
C8_Witness ==
    /\ st.pc = "done" /\ phase = "parsed"
    /\ st.lines = << K_model, K_enum_sp \o Ch("R"), K_model >>
    /\ st.i = Len(st.lines) + 2
    /\ enums = << [k |-> Ch("R"), v |-> [name |-> Ch("R"), values |-> << >>]] >>
    /\ models = << >>

\* export * from "./<P>/models";
IndexLine(P) == F_export_open \o P \o F_import_models_end

\* The one place of l in a text that holds l once.
PlaceOf(text, l) == CHOOSE k \in Places(text, l) : TRUE

\* The partition the schema text gives a model: the string of the @@schema
\* annotation of its last declaration, or default.
DeclaredPartition(name) ==
    LET last == LastDecl(decls, K_model, name)
    IN  IF last.schema = None THEN <<"d", "e", "f", "a", "u", "l", "t">> ELSE last.schema[1]

\* C9: in split mode every parsed model has its full interface in exactly one
\* artifact, <schema>/models.ts for the schema of its annotation or
\* default/models.ts; the models of an artifact stand in the order of the parsed
\* collection; with generateIndex, index.ts re-exports common/base, common/enums
\* and then every partition once, in lexicographic order of the partition names.
C9_Partitioning ==
    (phase = "done" /\ opts.split_by_schema) =>
        /\ \A j \in 1..Len(models) :
              LET name == models[j].k
                  holders == {a \in 1..Len(files) :
                                 Places(files[a].v, FullHeader(name)) # {}}
              IN  /\ Cardinality(holders) = 1
                  /\ \A a \in holders :
                        /\ files[a].k = DeclaredPartition(name)
                                            \o <<"/", "m", "o", "d", "e", "l", "s", ".", "t", "s">>
                        /\ Cardinality(Places(files[a].v, FullHeader(name))) = 1
        /\ \A j1, j2 \in 1..Len(models) :
              (j1 < j2 /\ DeclaredPartition(models[j1].k) = DeclaredPartition(models[j2].k)) =>
                  LET text == PartitionFile(DeclaredPartition(models[j1].k))
                  IN  PlaceOf(text, FullHeader(models[j1].k))
                          < PlaceOf(text, FullHeader(models[j2].k))
        /\ opts.generate_index =>
              LET idx == Get(files, F_index_path)
                  ps == {DeclaredPartition(models[j].k) : j \in 1..Len(models)}
                  n == Cardinality(ps)
              IN  /\ Len(idx) = n + 3
                  /\ idx[1] = F_export_base
                  /\ idx[2] = F_export_enums
                  /\ idx[n + 3] = << >>
                  /\ \A P \in ps : Cardinality(Places(idx, IndexLine(P))) = 1
                  /\ \A P, Q \in ps :
                        PlaceOf(idx, IndexLine(P)) < PlaceOf(idx, IndexLine(Q))
                            <=> StrLess(P, Q)

\* C and B declared in this order in partition y, then A in partition x: the
\* file of y holds C before B, the index lists x before y.
C9_Witness ==
    /\ phase = "done" /\ opts.split_by_schema /\ opts.generate_index
    /\ KeySeq(models) = <<Ch("C"), Ch("B"), Ch("A")>>
    /\ KeySeq(files) = << F_base_path, F_enums_path, Ch("y") \o F_models_suffix,
                          Ch("x") \o F_models_suffix, F_index_path >>
    /\ PlaceOf(PartitionFile(Ch("y")), FullHeader(Ch("C")))
           < PlaceOf(PartitionFile(Ch("y")), FullHeader(Ch("B")))
    /\ Get(files, F_index_path)
           = << F_export_base, F_export_enums, IndexLine(Ch("x")), IndexLine(Ch("y")), << >> >>

\* C10: no type name stored by parse_prisma holds "?" or "[]".
C10_TypeNameBare ==
    \A j \in 1..Len(st.models) : \A k \in 1..Len(st.models[j].v.fields) :
        /\ ~Contains(st.models[j].v.fields[k].type_name, <<"?">>)
        /\ ~Contains(st.models[j].v.fields[k].type_name, <<"[", "]">>)

\* import type { N1, N2 } from "../common/enums";
IsEnumImport(line) ==
    StartsWith(line, F_import_open) /\ EndsWith(line, F_import_enums_from)

\* The artifact at a path is in the map.
HasFile(path) == path \in Keys(files)

\* Every name a partition artifact imports from ../common/enums has its
\* export type declaration in common/enums.ts.
EnumImportsDeclared ==
    \A a \in 1..Len(files) : \A k \in 1..Len(files[a].v) :
        IsEnumImport(files[a].v[k]) =>
            \A n \in Range(ImportNames(files[a].v[k])) :
                /\ HasFile(F_enums_path)
                /\ \E e \in 1..Len(Get(files, F_enums_path)) :
                       StartsWith(Get(files, F_enums_path)[e], S_export_type \o n \o S_eq)

\* Every name a partition artifact imports from ../Q/models has its export
\* interface declaration in Q/models.ts, a key of the map.
ModelImportsDeclared ==
    \A a \in 1..Len(files) : \A k \in 1..Len(files[a].v) :
        IsModelImport(files[a].v[k]) =>
            LET Q == ImportSource(files[a].v[k])
            IN  \A n \in Range(ImportNames(files[a].v[k])) :
                    /\ HasFile(Q \o F_models_suffix)
                    /\ Places(Get(files, Q \o F_models_suffix), FullHeader(n)) # {}

\* C11: in split mode every name of every import statement of a partition
\* artifact is declared by the artifact it is imported from: an enum name by an
\* export type in common/enums.ts, a model name by an export interface in the
\* models.ts of its partition, which is in the map.
C11_ImportsDeclared ==
    (phase = "done" /\ opts.split_by_schema) =>
        /\ EnumImportsDeclared
        /\ ModelImportsDeclared
====
